---- MODULE Spec2Model ----
(***************************************************************************)
(* Model of the felix-overlay window-interactivity engine:                 *)
(*   electron/main.ts      click-through state, cursor broadcast loop,     *)
(*                         auto-fit bounds controller, tray action         *)
(*   src/renderer/App.tsx  widget hover tracking, app-level cursor effect  *)
(*                                                                         *)
(* Numbers reported by the renderer are JavaScript doubles.  A reported    *)
(* field is modelled as <<"fin", h>> for the finite value h/2 (so halves   *)
(* are representable and Math.round has something to round), <<"nan", 0>>  *)
(* or <<"inf", 0>> for a non-finite one.  Window and display rectangles    *)
(* are integers, as Electron reports them.                                 *)
(***************************************************************************)
EXTENDS Integers, Sequences, FiniteSets, TLC

VARIABLES
    platform,                \* process.platform
    displays,                \* screen: sequence of displays, primary first
    cursor,                  \* screen.getCursorScreenPoint()
    mainWindow,              \* main.ts: mainWindow (0 = null, else a window id)
    wins,                    \* the live (not destroyed) BrowserWindows, by id
    created,                 \* number of BrowserWindows constructed so far
    cursorBroadcastInterval, \* main.ts: 0 = null, else the window the timer's closure holds
    lastCursorPayload,       \* main.ts: <<>> = null, else <<[x, y, inWindow]>>
    toMain,                  \* ipcRenderer.send messages not yet handled by ipcMain
    toRenderer,              \* webContents.send messages not yet handled by the renderer
    calls,                   \* window / webContents calls issued by the latest main-process step
    mounted,                 \* the renderer's React tree is mounted (effects have run)
    hoveringRef,             \* App.tsx Widget: hoveringRef.current, per widget
    lastInside,              \* App.tsx App cursor effect: lastInside
    settingsOpen,            \* App.tsx App: settingsOpen
    domHover,                \* the element Chromium last delivered a mouseenter for (0 = none)
    contentSize,             \* App.tsx: <<width, height>> of the union rectangle of the content
    rafId,                   \* App.tsx bounds effect: a report is scheduled (rafId !== null)
    hist                     \* history of the run, read by the properties and by the caps
                             \* on environment events

vars == <<platform, displays, cursor, mainWindow, wins, created, cursorBroadcastInterval,
          lastCursorPayload, toMain, toRenderer, calls, mounted, hoveringRef, lastInside,
          settingsOpen, domHover, contentSize, rafId, hist>>

mainVars == <<mainWindow, wins, created, cursorBroadcastInterval, lastCursorPayload>>
hoverVars == <<mounted, hoveringRef, lastInside, settingsOpen, domHover>>
rendererVars == <<hoverVars, contentSize, rafId>>
envVars == <<platform, displays, cursor>>

-----------------------------------------------------------------------------
(* Bounds of the model *)

MaxQueue == 2          \* messages in flight towards the main process
MaxCursorQueue == 1    \* messages in flight towards the renderer
MaxWindows == 2        \* BrowserWindows constructed during a run
NumWidgets == 2        \* Widget components in the widget stack
MaxContentChanges == 3 \* changes of the content's size during a run

-----------------------------------------------------------------------------
(* Arithmetic of main.ts *)

Abs(n) == IF n < 0 THEN -n ELSE n
Min2(a, b) == IF a < b THEN a ELSE b
Max2(a, b) == IF a > b THEN a ELSE b

\* Math.round(n / 2) for an integer n: halves round towards +infinity
RoundHalf(n) == (n + 1) \div 2

Rect(x, y, w, h) == [x |-> x, y |-> y, width |-> w, height |-> h]
Point(x, y) == [x |-> x, y |-> y]

\* main.ts: const padding = 28
padding == 28

\* main.ts: if (delta < 2) return
JitterThreshold == 2

\* a clamp that forgets the upper limit
clampNoCap(n, min, max) == Max2(min, n)

\* main.ts:69-71
clamp(n, min, max) == Min2(max, Max2(min, n))

-----------------------------------------------------------------------------
(* Values reported over IPC *)

Fin(h) == <<"fin", h>>
NaN == <<"nan", 0>>
Infinity == <<"inf", 0>>

\* Number.isFinite(v)
IsFinite(v) == v[1] = "fin"

\* a WidgetBounds payload; missing = TRUE is a null / undefined payload
WidgetBounds(l, t, w, h) == [missing |-> FALSE, left |-> l, top |-> t, width |-> w, height |-> h]
NoBounds == [missing |-> TRUE, left |-> NaN, top |-> NaN, width |-> NaN, height |-> NaN]

HoverMsg(v) == [type |-> "overlay:set-widget-hovering", flag |-> v, bounds |-> NoBounds]
ClickThroughMsg(v) == [type |-> "overlay:request-click-through", flag |-> v, bounds |-> NoBounds]
BoundsMsg(b) == [type |-> "overlay:set-widget-bounds", flag |-> FALSE, bounds |-> b]

CursorMsg(s) == [type |-> "overlay:cursor", x |-> s.x, y |-> s.y, inWindow |-> s.inWindow]
OpenSettingsMsg == [type |-> "overlay:open-settings", x |-> 0, y |-> 0, inWindow |-> FALSE]

-----------------------------------------------------------------------------
(* Display Geometry Provider: electron.screen *)

Display(b, wa) == [bounds |-> b, workArea |-> wa]

\* distance (per axis, then summed squares) from a point to a rectangle
AxisGap(p, lo, len) == IF p < lo THEN lo - p ELSE IF p >= lo + len THEN p - (lo + len - 1) ELSE 0
DistSq(p, r) ==
    LET dx == AxisGap(p.x, r.x, r.width)
        dy == AxisGap(p.y, r.y, r.height)
    IN dx * dx + dy * dy

\* screen.getDisplayNearestPoint(point): the first display at least distance
getDisplayNearestPoint(ds, p) ==
    LET best == CHOOSE i \in 1..Len(ds) :
                    /\ \A j \in 1..Len(ds) : DistSq(p, ds[i].bounds) <= DistSq(p, ds[j].bounds)
                    /\ \A j \in 1..(i - 1) : DistSq(p, ds[j].bounds) > DistSq(p, ds[i].bounds)
    IN ds[best]

\* screen.getPrimaryDisplay()
getPrimaryDisplay(ds) == ds[1]

\* the display Chromium reports when none is attached: empty bounds and work area
DefaultDisplay == Display(Rect(0, 0, 0, 0), Rect(0, 0, 0, 0))

\* what screen can resolve a point against.  With no display attached the
\* platform decides: getDisplayNearestPoint hands back nothing (<<>>) or the
\* default display
resolvableDisplays(ds) == IF ds = <<>> THEN { <<>>, <<DefaultDisplay>> } ELSE { ds }

-----------------------------------------------------------------------------
(* Auto-fit bounds controller: applyWidgetBoundsToWindow, main.ts:73-105 *)

\* a desired size that pads one side only
desiredSizePadOnce(v) == Max2(1, RoundHalf(v[2]) + padding)

\* Math.max(1, Math.round(v + padding * 2)) for the reported value v = h / 2
desiredSize(v) == Max2(1, RoundHalf(v[2]) + padding * 2)

\* the point handed to getDisplayNearestPoint
currentCenter(current) ==
    Point(current.x + RoundHalf(current.width), current.y + RoundHalf(current.height))

\* const display = screen.getDisplayNearestPoint(center); const workArea = display.workArea
resolveWorkArea(current, ds) ==
    LET display == CHOOSE d \in { getDisplayNearestPoint(ds, center) :
                                      center \in {currentCenter(current)} } : TRUE
    IN display.workArea

\* a candidate pinned to the top-left corner of the work area
candidateRectTopLeft(current, widgetBounds, ds) ==
    LET workArea == resolveWorkArea(current, ds)
        width == clamp(desiredSize(widgetBounds.width), 1, workArea.width)
        height == clamp(desiredSize(widgetBounds.height), 1, workArea.height)
    IN Rect(workArea.x, workArea.y, width, height)

\* a candidate that follows the reported left / top
candidateRectAnchored(current, widgetBounds, ds) ==
    LET workArea == resolveWorkArea(current, ds)
        width == clamp(desiredSize(widgetBounds.width), 1, workArea.width)
        height == clamp(desiredSize(widgetBounds.height), 1, workArea.height)
        x == workArea.x + RoundHalf(workArea.width - width) + RoundHalf(widgetBounds.left[2])
        y == workArea.y + RoundHalf(workArea.height - height) + RoundHalf(widgetBounds.top[2])
    IN Rect(x, y, width, height)

\* a candidate that sits two units off centre whenever the window is centred
candidateRectToggling(current, widgetBounds, ds) ==
    LET workArea == resolveWorkArea(current, ds)
        width == clamp(desiredSize(widgetBounds.width), 1, workArea.width)
        height == clamp(desiredSize(widgetBounds.height), 1, workArea.height)
        x == workArea.x + RoundHalf(workArea.width - width)
        y == workArea.y + RoundHalf(workArea.height - height)
    IN Rect(IF current.x = x THEN x + 2 ELSE x, y, width, height)

\* const next = { x, y, width, height }
candidateRect(current, widgetBounds, ds) ==
    LET workArea == resolveWorkArea(current, ds)
        width == clamp(desiredSize(widgetBounds.width), 1, workArea.width)
        height == clamp(desiredSize(widgetBounds.height), 1, workArea.height)
        x == workArea.x + RoundHalf(workArea.width - width)
        y == workArea.y + RoundHalf(workArea.height - height)
    IN Rect(x, y, width, height)

\* const delta = Math.abs(..) + Math.abs(..) + Math.abs(..) + Math.abs(..)
rectDelta(current, next) ==
    Abs(current.x - next.x) + Abs(current.y - next.y) +
    Abs(current.width - next.width) + Abs(current.height - next.height)

\* a guard that absorbs every delta below 8
jitterGuardWide(current, next) == rectDelta(current, next) < 8

\* a guard that never absorbs a report
jitterGuardOff(current, next) == FALSE

\* if (delta < 2) return
jitterGuard(current, next) == rectDelta(current, next) < JitterThreshold

\* an applyWidgetBoundsToWindow that nudges the window when it absorbs a report
applyWidgetBoundsToWindowNudged(current, widgetBounds, ds) ==
    LET next == candidateRect(current, widgetBounds, ds)
    IN IF jitterGuard(current, next)
       THEN [current EXCEPT !.y = IF @ = next.y THEN @ + 1 ELSE next.y]
       ELSE next

\* the rectangle the window has after applyWidgetBoundsToWindow(win, widgetBounds)
applyWidgetBoundsToWindow(current, widgetBounds, ds) ==
    LET next == candidateRect(current, widgetBounds, ds)
    IN IF jitterGuard(current, next) THEN current ELSE next

\* the same checks without the width / height sign test
boundsPayloadOkNoSign(b) ==
    /\ ~b.missing
    /\ IsFinite(b.left) /\ IsFinite(b.top) /\ IsFinite(b.width) /\ IsFinite(b.height)

\* the checks of ipcMain.on('overlay:set-widget-bounds') that let a payload through
boundsPayloadOk(b) ==
    /\ ~b.missing
    /\ IsFinite(b.left) /\ IsFinite(b.top) /\ IsFinite(b.width) /\ IsFinite(b.height)
    /\ ~(b.width[2] <= 0 \/ b.height[2] <= 0)

-----------------------------------------------------------------------------
(* Input routing controller: setOverlayClickThrough, main.ts:138-155 *)

\* the window record: ignore / forward are the arguments of the latest
\* setIgnoreMouseEvents call, rect is getBounds();
\* onClosed: startCursorBroadcast registered its 'closed' listener on the window;
\* focusable: isFocusable(), true for a new BrowserWindow until setFocusable(false)
Window(ig, fw, r, oc, fc) ==
    [ignore |-> ig, forward |-> fw, rect |-> r, onClosed |-> oc, focusable |-> fc]

\* setOverlayClickThrough with the non-macOS branch never forwarding mouse moves
setOverlayClickThroughNoForward(w, clickThrough) ==
    IF platform = "darwin"
    THEN [w EXCEPT !.ignore = clickThrough, !.forward = FALSE]
    ELSE [w EXCEPT !.ignore = clickThrough, !.forward = FALSE]

\* setOverlayClickThrough with the sense of its argument inverted
setOverlayClickThroughInverted(w, clickThrough) ==
    IF platform = "darwin"
    THEN [w EXCEPT !.ignore = ~clickThrough, !.forward = FALSE]
    ELSE IF ~clickThrough
         THEN [w EXCEPT !.ignore = TRUE, !.forward = TRUE]
         ELSE [w EXCEPT !.ignore = FALSE, !.forward = FALSE]

\* setOverlayClickThrough flipping the forwarding flag on every click-through call
setOverlayClickThroughFlipForward(w, clickThrough) ==
    IF platform = "darwin"
    THEN [w EXCEPT !.ignore = clickThrough, !.forward = FALSE]
    ELSE IF clickThrough
         THEN [w EXCEPT !.ignore = TRUE, !.forward = ~w.forward]
         ELSE [w EXCEPT !.ignore = FALSE, !.forward = FALSE]

\* setOverlayClickThrough leaving forwarding as it was when going Interactive
setOverlayClickThroughForwardKept(w, clickThrough) ==
    IF platform = "darwin"
    THEN [w EXCEPT !.ignore = clickThrough, !.forward = FALSE]
    ELSE IF clickThrough
         THEN [w EXCEPT !.ignore = TRUE, !.forward = TRUE]
         ELSE [w EXCEPT !.ignore = FALSE]

\* setOverlayClickThrough that cannot take back an Interactive window
setOverlayClickThroughSticky(w, clickThrough) ==
    IF platform = "darwin"
    THEN [w EXCEPT !.ignore = clickThrough /\ w.ignore, !.forward = FALSE]
    ELSE IF clickThrough /\ w.ignore
         THEN [w EXCEPT !.ignore = TRUE, !.forward = TRUE]
         ELSE [w EXCEPT !.ignore = FALSE, !.forward = FALSE]

\* the window after setOverlayClickThrough(win, clickThrough)
setOverlayClickThrough(w, clickThrough) ==
    IF platform = "darwin"
    THEN [w EXCEPT !.ignore = clickThrough, !.forward = FALSE]
    ELSE IF clickThrough
         THEN [w EXCEPT !.ignore = TRUE, !.forward = TRUE]
         ELSE [w EXCEPT !.ignore = FALSE, !.forward = FALSE]

\* the setIgnoreMouseEvents call setOverlayClickThrough issues
ignoreCall(clickThrough) ==
    IF platform = "darwin"
    THEN (IF clickThrough THEN "setIgnoreMouseEvents(true)" ELSE "setIgnoreMouseEvents(false)")
    ELSE (IF clickThrough THEN "setIgnoreMouseEvents(true,forward)" ELSE "setIgnoreMouseEvents(false)")

\* InteractivityState of a window record
ClickThrough(w) == w.ignore
Interactive(w) == ~w.ignore

\* if (!mainWindow || mainWindow.isDestroyed()) return
mainWindowLive == mainWindow # 0 /\ mainWindow \in DOMAIN wins

-----------------------------------------------------------------------------
(* Cursor broadcast loop: the interval callback of startCursorBroadcast *)

Sample(x, y, inWindow) == [x |-> x, y |-> y, inWindow |-> inWindow]

\* a containment test that counts the right and bottom edges as inside
inWindowInclusive(x, y, bounds) == x >= 0 /\ y >= 0 /\ x <= bounds.width /\ y <= bounds.height

\* const inWindow = x >= 0 && y >= 0 && x < bounds.width && y < bounds.height
inWindowTest(x, y, bounds) == x >= 0 /\ y >= 0 /\ x < bounds.width /\ y < bounds.height

\* a sample in screen coordinates: the window origin is not subtracted
computeSampleScreen(bounds, point) ==
    Sample(point.x, point.y,
           inWindowTest(point.x - bounds.x, point.y - bounds.y, bounds))

\* the sample a tick computes from getBounds() and getCursorScreenPoint()
computeSample(bounds, point) ==
    LET x == point.x - bounds.x
        y == point.y - bounds.y
    IN Sample(x, y, inWindowTest(x, y, bounds))

\* a comparison that finds every sample new
samePayloadNever(last, s) == FALSE

\* a comparison that takes the absence of a previous sample for a match
samePayloadNullMatches(last, s) ==
    last = <<>> \/ (last[1].x = s.x /\ last[1].y = s.y /\ last[1].inWindow = s.inWindow)

\* lastCursorPayload && lastCursorPayload.x === x && .y === y && .inWindow === inWindow
samePayload(last, s) ==
    last # <<>> /\ last[1].x = s.x /\ last[1].y = s.y /\ last[1].inWindow = s.inWindow

-----------------------------------------------------------------------------
(* Renderer geometry: the widget stack is centred in the window, one hitbox *)
(* per Widget, side by side; the settings panel sits below the stack.       *)

Box(l, t, r, b) == [left |-> l, top |-> t, right |-> r, bottom |-> b]

Widgets == 1..NumWidgets
RootElement == 0                 \* .overlayRoot: empty space
PanelElement == NumWidgets + 1   \* .settingsPanel
NoElement == -1                  \* the pointer is not over the document

\* hitboxRef.current.getBoundingClientRect() of widget i
hitboxRect(i, bounds) ==
    LET left == (bounds.width - NumWidgets * 60) \div 2 + (i - 1) * 60
        top == (bounds.height - 60) \div 2
    IN Box(left, top, left + 60, top + 60)

\* settingsPanelRef.current.getBoundingClientRect()
panelRect(bounds) ==
    LET left == (bounds.width - 60) \div 2
        top == (bounds.height - 60) \div 2 + 70
    IN Box(left, top, left + 60, top + 60)

\* Widget cursor effect: pos.x >= rect.left && pos.y >= rect.top && pos.x <= rect.right && pos.y <= rect.bottom
insideRect(pos, rect) ==
    pos.x >= rect.left /\ pos.y >= rect.top /\ pos.x <= rect.right /\ pos.y <= rect.bottom

\* DOM hit test: boxes are half-open
hitTest(x, y, rect) == x >= rect.left /\ y >= rect.top /\ x < rect.right /\ y < rect.bottom

\* document.elementFromPoint(x, y), the panel painted above the widgets
elementFromPoint(x, y, bounds, open) ==
    IF ~inWindowTest(x, y, bounds) THEN NoElement
    ELSE IF open /\ hitTest(x, y, panelRect(bounds)) THEN PanelElement
    ELSE IF \E i \in Widgets : hitTest(x, y, hitboxRect(i, bounds))
         THEN CHOOSE i \in Widgets : hitTest(x, y, hitboxRect(i, bounds))
         ELSE RootElement

\* !!el?.closest?.('.widgetHitbox, .widget, .settingsPanel')
closestWidget(el) == el \in Widgets \/ el = PanelElement

-----------------------------------------------------------------------------
(* History read by the properties *)

HistInit ==
    [ explicitReq |-> FALSE,       \* an explicit interactive request is outstanding
      hover |-> "none",            \* hover messages handled: "on" after hovering = true, "ended"
                                   \* after a hovering = false that followed it
      confirmedOutside |-> FALSE,  \* since the latest hovering = true was handled, the renderer
                                   \* processed a sample outside every hit region
      sample |-> "none",           \* the latest sample the renderer processed, while nothing else
                                   \* has produced messages since: "inside" a hit region or "outside"
      resizeArea |-> <<>>,         \* the work area resolved by the call that last resized the window
      report |-> <<>>,             \* the latest bounds report handled for a live window, while
                                   \* the displays have not changed since
      lastEmitted |-> <<>>,        \* the sample most recently sent on overlay:cursor by the running loop
      prevTick |-> <<>>,           \* the previous tick of the running loop: its sample, and whether it was sent
      loopStarts |-> 1,            \* setInterval calls made by startCursorBroadcast so far
      lastApplied |-> <<TRUE>>,    \* the clickThrough argument most recently applied to the live window
      untouched |-> TRUE,          \* no hover, click-through or open-settings event was handled
                                   \* since the live window was created
      deadCall |-> "none",         \* the entry point that last ran while no window was live
      lastResize |-> <<>>,         \* <<width, height>> carried by the report that last resized the
                                   \* window, while the displays have not changed since
      contentChanges |-> 0,        \* changes of the content's size so far
      timers |-> {1},              \* the windows whose setInterval timer was not cleared
      oldEmitted |-> <<>>,         \* the sample last sent for the window closed most recently,
                                   \* kept until the next loop has ticked twice
      frames |-> 0,                \* requestAnimationFrame callbacks of the bounds effect that
                                   \* were requested and have neither run nor been cancelled
      reload |-> "none",           \* "done": the content was reloaded and no tick ran since;
                                   \* "quiet": ticks ran since and none sent a sample;
                                   \* "none" otherwise
      prevView |-> <<>> ]          \* what the previous tick of the running loop read: the
                                   \* pointer, the window origin, and whether it found the
                                   \* pointer where the tick before it did and the origin elsewhere

\* what the bounds handler did with a report
Report(payload, accepted, next, delta, resized) ==
    [payload |-> payload, accepted |-> accepted, next |-> next, delta |-> delta,
     resized |-> resized]

\* a renderer or tray event other than a cursor sample happened
Disturb(h) == [h EXCEPT !.sample = "none"]

-----------------------------------------------------------------------------
(* Window creation: createMainWindow, startCursorBroadcast *)

\* a createMainWindow that leaves the window accepting the mouse
createMainWindowInteractive(ds, started) ==
    setOverlayClickThrough(
        Window(FALSE, FALSE, getPrimaryDisplay(ds).bounds, started, platform # "darwin"), FALSE)

\* the BrowserWindow as createMainWindow leaves it; started = startCursorBroadcast
\* did not return early; on macOS main.ts:243 calls win.setFocusable(false)
createMainWindow(ds, started) ==
    setOverlayClickThrough(
        Window(FALSE, FALSE, getPrimaryDisplay(ds).bounds, started, platform # "darwin"), TRUE)

RendererReset ==
    /\ mounted' = FALSE
    /\ hoveringRef' = [i \in Widgets |-> FALSE]
    /\ lastInside' = FALSE
    /\ settingsOpen' = FALSE
    /\ domHover' = RootElement
    /\ rafId' = FALSE
    /\ contentSize' = contentSize

InitWith(configs, points) ==
    /\ platform \in {"darwin", "win32"}
    /\ displays \in configs
    /\ cursor \in points
    /\ mainWindow = 1
    /\ created = 1
    /\ wins = [i \in {1} |-> createMainWindow(displays, TRUE)]
    /\ cursorBroadcastInterval = 1
    /\ lastCursorPayload = <<>>
    /\ toMain = <<>>
    /\ toRenderer = <<>>
    /\ calls = <<>>
    /\ mounted = FALSE
    /\ hoveringRef = [i \in Widgets |-> FALSE]
    /\ lastInside = FALSE
    /\ settingsOpen = FALSE
    /\ domHover = RootElement
    /\ contentSize = <<488, 488>>
    /\ rafId = FALSE
    /\ hist = HistInit

\* webContents.send(channel, ...): delivered when a renderer listens, dropped otherwise
Deliver(q, m) == IF mounted THEN Append(q, m) ELSE q

-----------------------------------------------------------------------------
(* Main process: IPC handlers, tray, cursor tick *)

\* ipcMain.on('overlay:set-widget-hovering'), main.ts:346-350
HandleSetWidgetHovering ==
    /\ toMain # <<>>
    /\ Head(toMain).type = "overlay:set-widget-hovering"
    /\ LET hovering == Head(toMain).flag IN
        /\ toMain' = Tail(toMain)
        /\ IF ~mainWindowLive
           THEN /\ calls' = <<>>
                /\ hist' = [hist EXCEPT !.deadCall = "overlay:set-widget-hovering"]
                /\ UNCHANGED wins
           ELSE /\ wins' = [wins EXCEPT ![mainWindow] = setOverlayClickThrough(@, ~hovering)]
                /\ calls' = <<ignoreCall(~hovering)>>
                /\ hist' = [hist EXCEPT !.hover = IF hovering THEN "on"
                                                   ELSE IF @ = "on" THEN "ended" ELSE @,
                                        !.confirmedOutside = IF hovering THEN FALSE ELSE @,
                                        !.lastApplied = <<~hovering>>,
                                        !.untouched = FALSE]
    /\ UNCHANGED <<envVars, mainWindow, created, cursorBroadcastInterval, lastCursorPayload,
                   toRenderer, rendererVars>>

\* a click-through handler that also forgets the last cursor sample
HandleRequestClickThroughResetsDedup ==
    /\ toMain # <<>>
    /\ Head(toMain).type = "overlay:request-click-through"
    /\ LET clickThrough == Head(toMain).flag IN
        /\ toMain' = Tail(toMain)
        /\ IF ~mainWindowLive
           THEN /\ calls' = <<>>
                /\ hist' = [hist EXCEPT !.deadCall = "overlay:request-click-through"]
                /\ UNCHANGED <<wins, lastCursorPayload>>
           ELSE /\ wins' = [wins EXCEPT ![mainWindow] = setOverlayClickThrough(@, clickThrough)]
                /\ calls' = <<ignoreCall(clickThrough)>>
                /\ lastCursorPayload' = <<>>
                /\ hist' = [hist EXCEPT !.explicitReq = ~clickThrough,
                                        !.lastApplied = <<clickThrough>>,
                                        !.untouched = FALSE]
    /\ UNCHANGED <<envVars, mainWindow, created, cursorBroadcastInterval, toRenderer,
                   rendererVars>>

\* ipcMain.on('overlay:request-click-through'), main.ts:367-370
HandleRequestClickThrough ==
    /\ toMain # <<>>
    /\ Head(toMain).type = "overlay:request-click-through"
    /\ LET clickThrough == Head(toMain).flag IN
        /\ toMain' = Tail(toMain)
        /\ IF ~mainWindowLive
           THEN /\ calls' = <<>>
                /\ hist' = [hist EXCEPT !.deadCall = "overlay:request-click-through"]
                /\ UNCHANGED wins
           ELSE /\ wins' = [wins EXCEPT ![mainWindow] = setOverlayClickThrough(@, clickThrough)]
                /\ calls' = <<ignoreCall(clickThrough)>>
                /\ hist' = [hist EXCEPT !.explicitReq = ~clickThrough,
                                        !.lastApplied = <<clickThrough>>,
                                        !.untouched = FALSE]
    /\ UNCHANGED <<envVars, mainWindow, created, cursorBroadcastInterval, lastCursorPayload,
                   toRenderer, rendererVars>>

\* ipcMain.on('overlay:set-widget-bounds'), main.ts:352-365
HandleSetWidgetBounds ==
    /\ toMain # <<>>
    /\ Head(toMain).type = "overlay:set-widget-bounds"
    /\ LET bounds == Head(toMain).bounds IN
        /\ toMain' = Tail(toMain)
        /\ IF ~mainWindowLive
           THEN /\ calls' = <<>>
                /\ hist' = [hist EXCEPT !.deadCall = "overlay:set-widget-bounds"]
                /\ UNCHANGED wins
           ELSE IF ~boundsPayloadOk(bounds)
           THEN /\ calls' = <<>>
                /\ hist' = [hist EXCEPT
                       !.report = <<Report(bounds, FALSE, wins[mainWindow].rect, 0, FALSE)>>]
                /\ UNCHANGED wins
           ELSE \E ds \in resolvableDisplays(displays) :
                IF ds = <<>>
                THEN \* display is undefined: display.workArea throws a TypeError
                     /\ calls' = <<"throw:TypeError">>
                     /\ hist' = [hist EXCEPT
                            !.report = <<Report(bounds, TRUE, wins[mainWindow].rect, 0, FALSE)>>]
                     /\ UNCHANGED wins
                ELSE \E current \in {wins[mainWindow].rect} :
                     \E next \in {candidateRect(current, bounds, ds)},
                        after \in {applyWidgetBoundsToWindow(current, bounds, ds)} :
                     \E resized \in {~jitterGuard(current, next)} :
                        /\ wins' = [wins EXCEPT ![mainWindow].rect = after]
                        /\ calls' = IF resized THEN <<"setBounds">> ELSE <<>>
                        /\ hist' = [hist EXCEPT
                               !.report = <<Report(bounds, TRUE, next, rectDelta(current, next), resized)>>,
                               !.resizeArea = IF resized THEN <<resolveWorkArea(current, ds)>> ELSE @,
                               !.lastResize = IF resized
                                              THEN << <<bounds.width[2], bounds.height[2]>> >>
                                              ELSE @,
                               !.frames = IF resized /\ mounted /\ ~rafId THEN @ + 1 ELSE @]
    \* the window's 'resize' event reaches the bounds effect: schedule()
    /\ rafId' = (rafId \/ (mounted /\ calls' = <<"setBounds">>))
    /\ UNCHANGED <<envVars, mainWindow, created, cursorBroadcastInterval, lastCursorPayload,
                   toRenderer, hoverVars, contentSize>>

\* an Open Settings click that notifies the content before switching the window
TrayOpenSettingsNotifyFirst ==
    /\ Len(toRenderer) < MaxCursorQueue
    /\ IF ~mainWindowLive
       THEN /\ calls' = <<>>
            /\ hist' = [hist EXCEPT !.deadCall = "tray:open-settings"]
            /\ UNCHANGED <<wins, toRenderer>>
       ELSE /\ wins' = [wins EXCEPT ![mainWindow] = setOverlayClickThrough(@, FALSE)]
            /\ toRenderer' = Deliver(toRenderer, OpenSettingsMsg)
            /\ calls' = <<"send:overlay:open-settings", ignoreCall(FALSE), "showInactive">>
            /\ hist' = [Disturb(hist) EXCEPT !.explicitReq = TRUE,
                                              !.lastApplied = <<FALSE>>,
                                              !.untouched = FALSE]
    /\ UNCHANGED <<envVars, mainWindow, created, cursorBroadcastInterval, lastCursorPayload,
                   toMain, rendererVars>>

\* tray menu 'Open Settings' click, main.ts:288-296
TrayOpenSettings ==
    /\ Len(toRenderer) < MaxCursorQueue
    /\ IF ~mainWindowLive
       THEN /\ calls' = <<>>
            /\ hist' = [hist EXCEPT !.deadCall = "tray:open-settings"]
            /\ UNCHANGED <<wins, toRenderer>>
       ELSE /\ wins' = [wins EXCEPT ![mainWindow] = setOverlayClickThrough(@, FALSE)]
            /\ toRenderer' = Deliver(toRenderer, OpenSettingsMsg)
            /\ calls' = <<ignoreCall(FALSE), "send:overlay:open-settings", "showInactive">>
            /\ hist' = [Disturb(hist) EXCEPT !.explicitReq = TRUE,
                                              !.lastApplied = <<FALSE>>,
                                              !.untouched = FALSE]
    /\ UNCHANGED <<envVars, mainWindow, created, cursorBroadcastInterval, lastCursorPayload,
                   toMain, rendererVars>>

\* what a tick reads from getBounds() and getCursorScreenPoint()
tickView(bounds) ==
    LET origin == Point(bounds.x, bounds.y)
    IN [point |-> cursor, origin |-> origin,
        moved |-> /\ hist.prevView # <<>>
                  /\ hist.prevView[1].point = cursor
                  /\ hist.prevView[1].origin # origin]

\* the setInterval callback of startCursorBroadcast, main.ts:160-176
CursorTick ==
    /\ cursorBroadcastInterval # 0
    /\ Len(toRenderer) < MaxCursorQueue
    /\ LET win == cursorBroadcastInterval IN
        IF win \notin DOMAIN wins
        THEN /\ calls' = <<>>
             /\ UNCHANGED <<lastCursorPayload, toRenderer, hist>>
        ELSE LET s == computeSample(wins[win].rect, cursor) IN
             IF samePayload(lastCursorPayload, s)
             THEN /\ calls' = <<>>
                  /\ hist' = [hist EXCEPT !.prevTick = <<[s |-> s, sent |-> FALSE]>>,
                                          !.prevView = <<tickView(wins[win].rect)>>,
                                          !.reload = IF @ = "none" THEN @ ELSE "quiet",
                                          !.oldEmitted = IF hist.prevTick = <<>> THEN @ ELSE <<>>]
                  /\ UNCHANGED <<lastCursorPayload, toRenderer>>
             ELSE /\ lastCursorPayload' = <<s>>
                  /\ toRenderer' = Deliver(toRenderer, CursorMsg(s))
                  /\ calls' = <<"send:overlay:cursor">>
                  /\ hist' = [hist EXCEPT !.prevTick = <<[s |-> s, sent |-> TRUE]>>,
                                          !.prevView = <<tickView(wins[win].rect)>>,
                                          !.reload = "none",
                                          !.lastEmitted = <<s>>,
                                          !.oldEmitted = IF hist.prevTick = <<>> THEN @ ELSE <<>>]
    /\ UNCHANGED <<envVars, mainWindow, wins, created, cursorBroadcastInterval, toMain,
                   rendererVars>>

-----------------------------------------------------------------------------
(* Renderer: App.tsx *)

\* ipcRenderer.send, in order
SendAll(msgs) ==
    /\ Len(toMain) + Len(msgs) <= MaxQueue
    /\ toMain' = toMain \o msgs

\* the renderer's view of its window and of the pointer
rendererBounds == wins[mainWindow].rect
pointerElement ==
    elementFromPoint(cursor.x - rendererBounds.x, cursor.y - rendererBounds.y,
                     rendererBounds, settingsOpen)

\* the window receives mouse events / forwarded mouse moves (setIgnoreMouseEvents)
receivesMouse == ~wins[mainWindow].ignore
receivesMouseMove == ~wins[mainWindow].ignore \/ wins[mainWindow].forward

\* a mount effect that leaves the window's interactivity to the main process
RendererMountSilent ==
    /\ mainWindowLive
    /\ ~mounted
    /\ mounted' = TRUE
    /\ calls' = <<>>
    /\ hist' = [Disturb(hist) EXCEPT !.frames = 1]
    /\ rafId' = TRUE
    /\ UNCHANGED <<envVars, mainVars, toMain, toRenderer, hoveringRef, lastInside, settingsOpen,
                   domHover, contentSize>>

\* App mount effect, App.tsx:826-844: window.overlay?.requestClickThrough(true)
RendererMount ==
    /\ mainWindowLive
    /\ ~mounted
    /\ mounted' = TRUE
    /\ SendAll(<<ClickThroughMsg(TRUE)>>)
    /\ calls' = <<>>
    /\ hist' = [Disturb(hist) EXCEPT !.frames = 1]
    /\ rafId' = TRUE
    /\ UNCHANGED <<envVars, mainVars, toRenderer, hoveringRef, lastInside, settingsOpen, domHover,
                   contentSize>>

\* an App cursor effect that reports the containment of every sample
appHoverMsgsEverySample(pos, insideWidget) ==
    IF ~pos.inWindow THEN <<HoverMsg(FALSE)>> ELSE <<HoverMsg(insideWidget)>>

\* what the App cursor effect (App.tsx:876-897) sends for a sample
appHoverMsgs(pos, insideWidget) ==
    IF ~pos.inWindow
    THEN (IF lastInside THEN <<HoverMsg(FALSE)>> ELSE <<>>)
    ELSE (IF insideWidget # lastInside THEN <<HoverMsg(insideWidget)>> ELSE <<>>)

\* one overlay:cursor message: the Widget cursor effect (App.tsx:537-564) of
\* every widget, then the App cursor effect
RendererCursor ==
    /\ mounted
    /\ toRenderer # <<>>
    /\ Head(toRenderer).type = "overlay:cursor"
    /\ LET pos == Head(toRenderer)
           inside == [i \in Widgets |-> pos.inWindow /\ insideRect(pos, hitboxRect(i, rendererBounds))]
           leaving == {i \in Widgets : hoveringRef[i] /\ ~inside[i]}
           el == elementFromPoint(pos.x, pos.y, rendererBounds, settingsOpen)
           insideWidget == closestWidget(el)
           outsideAll == ~pos.inWindow \/ (~insideWidget /\ \A i \in Widgets : ~inside[i])
       IN
        /\ toRenderer' = Tail(toRenderer)
        /\ hoveringRef' = inside
        /\ lastInside' = (pos.inWindow /\ insideWidget)
        /\ SendAll([k \in 1..Cardinality(leaving) |-> HoverMsg(FALSE)]
                   \o appHoverMsgs(pos, insideWidget))
        /\ hist' = [hist EXCEPT !.sample = IF pos.inWindow /\ insideWidget THEN "inside" ELSE "outside",
                                !.confirmedOutside = outsideAll \/ @]
    /\ calls' = <<>>
    /\ UNCHANGED <<envVars, mainVars, mounted, settingsOpen, domHover, contentSize, rafId>>

\* window.overlay.onOpenSettings handler: setSettingsOpen(true)
RendererOpenSettings ==
    /\ mounted
    /\ toRenderer # <<>>
    /\ Head(toRenderer).type = "overlay:open-settings"
    /\ toRenderer' = Tail(toRenderer)
    /\ settingsOpen' = TRUE
    /\ calls' = <<>>
    \* the bounds effect runs again: its cleanup cancels the pending frame
    /\ hist' = [Disturb(hist) EXCEPT !.frames = 1]
    /\ rafId' = TRUE
    /\ UNCHANGED <<envVars, mainVars, toMain, mounted, hoveringRef, lastInside, domHover,
                   contentSize>>

\* a mousemove reaches the document: Widget handleMouseMove (App.tsx:519-529) when
\* over a widget, then overlayRoot onMouseMove (App.tsx:971-975)
DomMouseMove ==
    /\ mounted
    /\ receivesMouseMove
    /\ pointerElement # NoElement
    /\ LET el == pointerElement IN
        IF el \in Widgets
        THEN /\ ~hoveringRef[el]
             /\ hoveringRef' = [hoveringRef EXCEPT ![el] = TRUE]
             /\ SendAll(<<HoverMsg(TRUE)>>)
        ELSE /\ el = RootElement
             /\ SendAll(<<HoverMsg(FALSE)>>)
             /\ UNCHANGED hoveringRef
    /\ calls' = <<>>
    /\ hist' = Disturb(hist)
    /\ UNCHANGED <<envVars, mainVars, toRenderer, mounted, lastInside, settingsOpen, domHover,
                   contentSize, rafId>>

\* Widget onMouseEnter (App.tsx:571-579) / settings panel onMouseEnter (App.tsx:995)
DomMouseEnter ==
    /\ mounted
    /\ receivesMouse
    /\ closestWidget(pointerElement)
    /\ domHover # pointerElement
    /\ domHover' = pointerElement
    /\ hoveringRef' = IF pointerElement \in Widgets
                      THEN [hoveringRef EXCEPT ![pointerElement] = TRUE]
                      ELSE hoveringRef
    /\ SendAll(<<HoverMsg(TRUE)>>)
    /\ calls' = <<>>
    /\ hist' = Disturb(hist)
    /\ UNCHANGED <<envVars, mainVars, toRenderer, mounted, lastInside, settingsOpen,
                   contentSize, rafId>>

\* Widget handleMouseLeave (App.tsx:531-535) / settings panel onMouseLeave (App.tsx:996)
DomMouseLeave ==
    /\ mounted
    /\ receivesMouse
    /\ closestWidget(domHover)
    /\ domHover # pointerElement
    /\ domHover' = RootElement
    /\ hoveringRef' = IF domHover \in Widgets
                      THEN [hoveringRef EXCEPT ![domHover] = FALSE]
                      ELSE hoveringRef
    /\ SendAll(<<HoverMsg(FALSE)>>)
    /\ calls' = <<>>
    /\ hist' = Disturb(hist)
    /\ UNCHANGED <<envVars, mainVars, toRenderer, mounted, lastInside, settingsOpen,
                   contentSize, rafId>>

\* computeUnionRect, App.tsx:902-926: the content's rectangle, centred in the
\* window; <<>> when it is empty
computeUnionRect ==
    LET width == Max2(0, contentSize[1])
        height == Max2(0, contentSize[2])
        left == (2 * rendererBounds.width - width) \div 2
        top == (2 * rendererBounds.height - height) \div 2
    IN IF width <= 0 \/ height <= 0
       THEN <<>>
       ELSE <<WidgetBounds(Fin(left), Fin(top), Fin(width), Fin(height))>>

\* report, App.tsx:928-933: the requestAnimationFrame callback of the bounds effect
ReportBounds ==
    /\ mounted
    /\ rafId
    /\ rafId' = FALSE
    /\ IF computeUnionRect = <<>>
       THEN UNCHANGED toMain
       ELSE SendAll(<<BoundsMsg(computeUnionRect[1])>>)
    /\ calls' = <<>>
    /\ hist' = [hist EXCEPT !.frames = @ - 1]
    /\ UNCHANGED <<envVars, mainVars, toRenderer, hoverVars, contentSize>>

\* a ResizeObserver callback that requests a frame for every change
ContentResizeUncoalesced(sizes) ==
    /\ mounted
    /\ hist.contentChanges < MaxContentChanges
    /\ \E s \in sizes : s # contentSize /\ contentSize' = s
    /\ rafId' = TRUE
    /\ calls' = <<>>
    /\ hist' = [hist EXCEPT !.contentChanges = @ + 1, !.frames = @ + 1]
    /\ UNCHANGED <<envVars, mainVars, toMain, toRenderer, hoverVars>>

\* the content's size changes: the ResizeObserver of the bounds effect
\* (App.tsx:943-945) calls schedule(), which requests a frame when none is pending
ContentResize(sizes) ==
    /\ mounted
    /\ hist.contentChanges < MaxContentChanges
    /\ \E s \in sizes : s # contentSize /\ contentSize' = s
    /\ rafId' = TRUE
    /\ calls' = <<>>
    /\ hist' = [hist EXCEPT !.contentChanges = @ + 1,
                            !.frames = IF rafId THEN @ ELSE @ + 1]
    /\ UNCHANGED <<envVars, mainVars, toMain, toRenderer, hoverVars>>

\* settings panel Close button onClick, App.tsx:1002-1005
SettingsCloseClick ==
    /\ mounted
    /\ settingsOpen
    /\ receivesMouse
    /\ pointerElement = PanelElement
    /\ settingsOpen' = FALSE
    /\ domHover' = IF domHover = PanelElement THEN RootElement ELSE domHover
    /\ SendAll(<<HoverMsg(FALSE)>>)
    /\ calls' = <<>>
    /\ hist' = [Disturb(hist) EXCEPT !.frames = 1]
    /\ rafId' = TRUE
    /\ UNCHANGED <<envVars, mainVars, toRenderer, mounted, hoveringRef, lastInside, contentSize>>

-----------------------------------------------------------------------------
(* Environment *)

\* the user moves the pointer
MoveCursor(points) ==
    /\ \E p \in points : p # cursor /\ cursor' = p
    /\ calls' = <<>>
    /\ UNCHANGED <<platform, displays, mainVars, toMain, toRenderer, rendererVars, hist>>

\* displays are plugged, unplugged or rearranged
DisplayChange(configs) ==
    /\ \E ds \in configs : ds # displays /\ displays' = ds
    /\ calls' = <<>>
    /\ hist' = [hist EXCEPT !.lastResize = <<>>, !.report = <<>>]
    /\ UNCHANGED <<platform, cursor, mainVars, toMain, toRenderer, rendererVars>>

\* some content calls window.overlay.setWidgetBounds(payload)
SendBounds(payloads) ==
    /\ mounted
    /\ toMain = <<>>
    /\ \E b \in payloads : SendAll(<<BoundsMsg(b)>>)
    /\ calls' = <<>>
    /\ UNCHANGED <<envVars, mainVars, toRenderer, rendererVars, hist>>

-----------------------------------------------------------------------------
(* Window lifecycle *)

\* a 'closed' listener that leaves the timer running
closedListenerKeepsInterval(interval, payload) == <<interval, <<>>>>

\* a 'closed' listener that leaves the dedup state behind
closedListenerKeepsPayload(interval, payload) == <<0, payload>>

\* the 'closed' listener of startCursorBroadcast, main.ts:178-184, as a function
\* of <<cursorBroadcastInterval, lastCursorPayload>>
closedListener(interval, payload) == <<IF interval # 0 THEN 0 ELSE interval, <<>>>>

\* the history of a run with no live window
HistClosed == [HistInit EXCEPT !.loopStarts = hist.loopStarts,
                               !.lastApplied = <<>>,
                               !.untouched = FALSE,
                               !.timers = hist.timers,
                               !.oldEmitted = hist.lastEmitted]

\* the timers left by a 'closed' listener that turned interval into after:
\* clearInterval(cursorBroadcastInterval) goes with cursorBroadcastInterval = null
clearedTimers(interval, after) ==
    IF interval # 0 /\ after = 0 THEN hist.timers \ {interval} ELSE hist.timers

\* a reload shortcut that skips the check for a live window
GuardedReloadUnguarded ==
    /\ calls' = <<"reloadIgnoringCache">>
    /\ RendererReset
    /\ toRenderer' = <<>>
    /\ hist' = Disturb(hist)
    /\ UNCHANGED <<envVars, mainVars, toMain>>

\* the window is closed: its renderer goes away, and the 'closed' listener of
\* startCursorBroadcast runs if it was registered
CloseWindow ==
    /\ \E id \in DOMAIN wins :
        /\ wins' = [i \in (DOMAIN wins) \ {id} |-> wins[i]]
        /\ IF wins[id].onClosed
           THEN /\ cursorBroadcastInterval' =
                       closedListener(cursorBroadcastInterval, lastCursorPayload)[1]
                /\ lastCursorPayload' =
                       closedListener(cursorBroadcastInterval, lastCursorPayload)[2]
                /\ hist' = [HistClosed EXCEPT !.timers =
                       clearedTimers(cursorBroadcastInterval,
                           closedListener(cursorBroadcastInterval, lastCursorPayload)[1])]
           ELSE /\ UNCHANGED <<cursorBroadcastInterval, lastCursorPayload>>
                /\ hist' = [HistClosed EXCEPT !.prevTick = hist.prevTick,
                                               !.lastEmitted = hist.lastEmitted]
    /\ RendererReset
    /\ toRenderer' = <<>>
    /\ calls' = <<>>
    /\ UNCHANGED <<envVars, mainWindow, created, toMain>>

\* an activate handler that drops the window createMainWindow returns
ActivateKeepsMainWindow ==
    /\ created < MaxWindows
    /\ DOMAIN wins = {}
    /\ LET id == created + 1
           started == cursorBroadcastInterval = 0
       IN /\ created' = id
          /\ wins' = [i \in {id} |-> createMainWindow(displays, started)]
          /\ cursorBroadcastInterval' = IF started THEN id ELSE cursorBroadcastInterval
          /\ hist' = [hist EXCEPT !.loopStarts = IF started THEN @ + 1 ELSE @,
                                  !.timers = IF started THEN @ \cup {id} ELSE @,
                                  !.lastApplied = <<TRUE>>,
                                  !.untouched = TRUE,
                                  !.deadCall = "none"]
    /\ calls' = <<ignoreCall(TRUE)>>
    /\ UNCHANGED <<envVars, mainWindow, lastCursorPayload, toMain, toRenderer, rendererVars>>

\* an activate handler whose new window gets no cursor loop
ActivateNoBroadcast ==
    /\ created < MaxWindows
    /\ DOMAIN wins = {}
    /\ LET id == created + 1
       IN /\ created' = id
          /\ mainWindow' = id
          /\ wins' = [i \in {id} |-> createMainWindow(displays, FALSE)]
          /\ hist' = [hist EXCEPT !.lastApplied = <<TRUE>>,
                                  !.untouched = TRUE,
                                  !.deadCall = "none"]
    /\ calls' = <<ignoreCall(TRUE)>>
    /\ UNCHANGED <<envVars, cursorBroadcastInterval, lastCursorPayload, toMain, toRenderer,
                   rendererVars>>

\* an activate handler that creates a window whether or not one is open
ActivateAlways ==
    /\ created < MaxWindows
    /\ LET id == created + 1
           started == cursorBroadcastInterval = 0
       IN /\ created' = id
          /\ mainWindow' = id
          /\ wins' = [i \in (DOMAIN wins) \cup {id} |->
                         IF i = id THEN createMainWindow(displays, started) ELSE wins[i]]
          /\ cursorBroadcastInterval' = IF started THEN id ELSE cursorBroadcastInterval
          /\ hist' = [hist EXCEPT !.loopStarts = IF started THEN @ + 1 ELSE @,
                                  !.timers = IF started THEN @ \cup {id} ELSE @,
                                  !.lastApplied = <<TRUE>>,
                                  !.untouched = TRUE,
                                  !.deadCall = "none"]
    /\ calls' = <<ignoreCall(TRUE)>>
    /\ UNCHANGED <<envVars, lastCursorPayload, toMain, toRenderer, rendererVars>>

\* app.on('activate'), main.ts:468-472: createMainWindow when no window is left;
\* startCursorBroadcast returns early when an interval is still set
Activate ==
    /\ created < MaxWindows
    /\ DOMAIN wins = {}
    /\ LET id == created + 1
           started == cursorBroadcastInterval = 0
       IN /\ created' = id
          /\ mainWindow' = id
          /\ wins' = [i \in {id} |-> createMainWindow(displays, started)]
          /\ cursorBroadcastInterval' = IF started THEN id ELSE cursorBroadcastInterval
          /\ hist' = [hist EXCEPT !.loopStarts = IF started THEN @ + 1 ELSE @,
                                  !.timers = IF started THEN @ \cup {id} ELSE @,
                                  !.lastApplied = <<TRUE>>,
                                  !.untouched = TRUE,
                                  !.deadCall = "none"]
    /\ calls' = <<ignoreCall(TRUE)>>
    /\ UNCHANGED <<envVars, lastCursorPayload, toMain, toRenderer, rendererVars>>

\* a reload that also puts the window back over the primary display
GuardedReloadResetsBounds ==
    /\ IF ~mainWindowLive
       THEN /\ calls' = <<>>
            /\ hist' = [hist EXCEPT !.deadCall = "shortcut:reload"]
            /\ UNCHANGED <<wins, toRenderer, rendererVars>>
       ELSE IF lastCursorPayload # <<>> /\ ~lastCursorPayload[1].inWindow
       THEN /\ calls' = <<>>
            /\ UNCHANGED <<wins, toRenderer, rendererVars, hist>>
       ELSE /\ calls' = <<"reloadIgnoringCache">>
            /\ wins' = [wins EXCEPT ![mainWindow].rect = getPrimaryDisplay(displays).bounds]
            /\ RendererReset
            /\ toRenderer' = <<>>
            /\ hist' = Disturb(hist)
    /\ UNCHANGED <<envVars, mainWindow, created, cursorBroadcastInterval, lastCursorPayload,
                   toMain>>

\* a reload that also forgets the last cursor sample
GuardedReloadClearsDedup ==
    /\ IF ~mainWindowLive
       THEN /\ calls' = <<>>
            /\ hist' = [hist EXCEPT !.deadCall = "shortcut:reload"]
            /\ UNCHANGED <<toRenderer, rendererVars, lastCursorPayload>>
       ELSE IF lastCursorPayload # <<>> /\ ~lastCursorPayload[1].inWindow
       THEN /\ calls' = <<>>
            /\ UNCHANGED <<toRenderer, rendererVars, hist, lastCursorPayload>>
       ELSE /\ calls' = <<"reloadIgnoringCache">>
            /\ RendererReset
            /\ toRenderer' = <<>>
            /\ lastCursorPayload' = <<>>
            /\ hist' = [Disturb(hist) EXCEPT !.reload = "done", !.lastEmitted = <<>>]
    /\ UNCHANGED <<envVars, mainWindow, wins, created, cursorBroadcastInterval, toMain>>

\* guardedReload, main.ts:337-341: the Cmd/Ctrl+R global shortcut
GuardedReload ==
    /\ IF ~mainWindowLive
       THEN /\ calls' = <<>>
            /\ hist' = [hist EXCEPT !.deadCall = "shortcut:reload"]
            /\ UNCHANGED <<toRenderer, rendererVars>>
       ELSE IF lastCursorPayload # <<>> /\ ~lastCursorPayload[1].inWindow
       THEN /\ calls' = <<>>
            /\ UNCHANGED <<toRenderer, rendererVars, hist>>
       ELSE /\ calls' = <<"reloadIgnoringCache">>
            /\ RendererReset
            /\ toRenderer' = <<>>
            /\ hist' = [Disturb(hist) EXCEPT !.reload = "done", !.frames = 0]
    /\ UNCHANGED <<envVars, mainVars, toMain>>

-----------------------------------------------------------------------------
(* Inputs *)

SquareDisplay == Display(Rect(0, 0, 1100, 1100), Rect(0, 0, 1100, 1100))
SideDisplay == Display(Rect(1100, 0, 1280, 720), Rect(1100, 0, 1280, 700))
HdDisplay == Display(Rect(0, 0, 1920, 1080), Rect(0, 0, 1920, 1080))
HdTaskbar == Display(Rect(0, 0, 1920, 1080), Rect(0, 0, 1920, 1040))
HdRight == Display(Rect(300, 0, 1920, 1080), Rect(300, 30, 1920, 1050))
SmallDisplay == Display(Rect(0, 0, 300, 200), Rect(0, 25, 300, 175))
NoWorkArea == Display(Rect(0, 0, 1920, 1080), Rect(0, 0, 0, 1080))

\* display arrangements of the overlay pipeline
OverlayDisplays == { <<SquareDisplay, SideDisplay>> }

\* display arrangements of the bounds controller
DisplayConfigs ==
    { <<HdDisplay>>, <<HdTaskbar>>, <<SmallDisplay, HdRight>>, <<SmallDisplay>>, <<NoWorkArea>> }

\* pointer positions of the overlay pipeline: on the side display, over empty
\* space, over widget 1 and over widget 2 of the full-screen window
OverlayPoints == { Point(1200, 500), Point(500, 500), Point(520, 550), Point(580, 550) }

\* pointer positions of the cursor loop: on the side display, inside the
\* full-screen window only, over empty space, over widget 1, and on the edges
\* of the fitted window (400, 400, 300, 300)
CursorPoints ==
    { Point(1200, 500), Point(1000, 1000), Point(500, 500), Point(520, 550),
      Point(400, 400), Point(399, 400), Point(699, 699), Point(700, 699) }

\* display arrangements while monitors are torn down: one display, a smaller
\* one, none at all
TeardownConfigs == { <<HdDisplay>>, <<SmallDisplay>>, <<>> }

\* pointer positions of the window lifecycle: on the side display, and over
\* widget 1 of the full-screen window
LifePoints == { Point(1200, 500), Point(520, 550) }

\* sizes the content takes after its first 244 x 244, in half units:
\* 200 x 120, 200.5 x 120 and 201 x 121.5
ContentSizes == { <<400, 240>>, <<401, 240>>, <<402, 243>> }

\* sizes of the content of the bounds reports, empty ones among them, in half
\* units: 200 x 120, 201 x 121.5, 0 x 0, 0 x 120 and 200 x 0
ReportSizes == { <<400, 240>>, <<402, 243>>, <<0, 0>>, <<0, 240>>, <<400, 0>> }

\* display arrangements of the resize feedback loop
FitDisplays == { <<HdDisplay>>, <<SmallDisplay, HdRight>> }

\* what content reports: a 244 x 244 union rectangle
ContentBounds ==
    { WidgetBounds(Fin(856), Fin(856), Fin(488), Fin(488)) }

BoundsPayloads ==
    { WidgetBounds(Fin(1720), Fin(960), Fin(400), Fin(240)),
      WidgetBounds(Fin(0), Fin(0), Fin(400), Fin(240)),
      WidgetBounds(Fin(1720), Fin(960), Fin(401), Fin(240)),
      WidgetBounds(Fin(0), Fin(0), Fin(402), Fin(243)),
      WidgetBounds(Fin(0), Fin(0), Fin(5000), Fin(3000)),
      WidgetBounds(Fin(10), Fin(10), Fin(1), Fin(1)),
      NoBounds,
      WidgetBounds(NaN, Fin(0), Fin(400), Fin(240)),
      WidgetBounds(Fin(0), Infinity, Fin(400), Fin(240)),
      WidgetBounds(Fin(0), Fin(0), NaN, Fin(240)),
      WidgetBounds(Fin(0), Fin(0), Fin(400), Infinity),
      WidgetBounds(Fin(0), Fin(0), Fin(0), Fin(240)),
      WidgetBounds(Fin(0), Fin(0), Fin(400), Fin(-2)) }

-----------------------------------------------------------------------------
(* Specifications *)

\* the overlay pipeline: cursor loop, renderer hover logic, interactivity
Init == InitWith(OverlayDisplays, {Point(1200, 500)})

Next ==
    \/ MoveCursor(OverlayPoints)
    \/ CursorTick
    \/ RendererMount
    \/ RendererCursor
    \/ RendererOpenSettings
    \/ DomMouseMove
    \/ DomMouseEnter
    \/ DomMouseLeave
    \/ HandleSetWidgetHovering
    \/ HandleRequestClickThrough
    \/ TrayOpenSettings

Spec == Init /\ [][Next]_vars

\* the cursor broadcast loop under pointer moves and window resizes
InitCursor == InitWith(OverlayDisplays, {Point(1200, 500)})

NextCursor ==
    \/ MoveCursor(CursorPoints)
    \/ CursorTick
    \/ RendererMount
    \/ RendererCursor
    \/ HandleSetWidgetHovering
    \/ HandleRequestClickThrough
    \/ SendBounds(ContentBounds)
    \/ HandleSetWidgetBounds

SpecCursor == InitCursor /\ [][NextCursor]_vars

\* the bounds controller on arbitrary payloads and display arrangements
InitBounds == InitWith(DisplayConfigs, {Point(500, 500)})

NextBounds ==
    \/ RendererMount
    \/ HandleRequestClickThrough
    \/ SendBounds(BoundsPayloads)
    \/ HandleSetWidgetBounds
    \/ DisplayChange(DisplayConfigs)

SpecBounds == InitBounds /\ [][NextBounds]_vars

\* bounds reports while displays are unplugged
InitTeardown == InitWith({ <<HdDisplay>> }, {Point(500, 500)})

NextTeardown ==
    \/ RendererMount
    \/ HandleRequestClickThrough
    \/ SendBounds(BoundsPayloads)
    \/ HandleSetWidgetBounds
    \/ DisplayChange(TeardownConfigs)

SpecTeardown == InitTeardown /\ [][NextTeardown]_vars

\* the window lifecycle: close, activate, reload, with every entry point of the
\* main process
InitLifecycle == InitWith(OverlayDisplays, {Point(1200, 500)})

NextLifecycle ==
    \/ MoveCursor(LifePoints)
    \/ CursorTick
    \/ RendererMount
    \/ RendererCursor
    \/ RendererOpenSettings
    \/ HandleSetWidgetHovering
    \/ HandleRequestClickThrough
    \/ SendBounds(ContentBounds)
    \/ HandleSetWidgetBounds
    \/ TrayOpenSettings
    \/ GuardedReload
    \/ CloseWindow
    \/ Activate

SpecLifecycle == InitLifecycle /\ [][NextLifecycle]_vars

\* the resize feedback loop: content reports its bounds, the window is fitted,
\* the resize makes the content report again
InitFit == InitWith(FitDisplays, {Point(1200, 500)})

NextFit ==
    \/ RendererMount
    \/ HandleRequestClickThrough
    \/ ContentResize(ContentSizes)
    \/ ReportBounds
    \/ HandleSetWidgetBounds

\* scheduled animation frames fire and queued IPC messages are handled
SpecFit ==
    /\ InitFit
    /\ [][NextFit]_vars
    /\ WF_vars(ReportBounds)
    /\ WF_vars(HandleSetWidgetBounds)
    /\ WF_vars(HandleRequestClickThrough)

\* hover driven by cursor samples alone: the cursor loop, the cursor effects
\* of the content, the settings panel, and the handlers of what they send
InitSamples == InitWith(OverlayDisplays, {Point(1200, 500)})

NextSamples ==
    \/ MoveCursor(OverlayPoints)
    \/ CursorTick
    \/ RendererMount
    \/ RendererCursor
    \/ TrayOpenSettings
    \/ RendererOpenSettings
    \/ HandleSetWidgetHovering
    \/ HandleRequestClickThrough

SpecSamples == InitSamples /\ [][NextSamples]_vars

\* bounds reporting of the content: size changes, settings panel, window resizes
InitReport == InitWith({ <<HdDisplay>> }, {Point(1200, 500)})

NextReport ==
    \/ RendererMount
    \/ HandleRequestClickThrough
    \/ TrayOpenSettings
    \/ RendererOpenSettings
    \/ ContentResize(ReportSizes)
    \/ ReportBounds
    \/ HandleSetWidgetBounds

SpecReport == InitReport /\ [][NextReport]_vars

-----------------------------------------------------------------------------
(* Properties *)

liveRect == wins[mainWindow].rect
liveWindow == wins[mainWindow]

\* the head of toMain is a message of the given channel
Handling(channel) == toMain # <<>> /\ Head(toMain).type = channel

\* C1: while an explicit interactive request is outstanding (tray Open Settings
\* or requestClickThrough(false), not yet followed by requestClickThrough(true))
\* the live window is Interactive, whatever hover messages arrive meanwhile.
C1_ExplicitRequestKeepsInteractive ==
    (mainWindowLive /\ hist.explicitReq) => Interactive(liveWindow)

\* C2 as claimed: on macOS, a hover-end message handled after a hover-start
\* leaves the window Interactive unless a cursor sample outside every hit
\* region has been processed since the hover-start.
C2_HoverEndAwaitsCursorSample ==
    [][ ( /\ HandleSetWidgetHovering
          /\ mainWindowLive
          /\ platform = "darwin"
          /\ hist.hover = "on"
          /\ ~Head(toMain).flag
          /\ ~hist.confirmedOutside )
        => Interactive(wins'[mainWindow]) ]_vars

\* C2 as amended: after a hover-start was handled the live window leaves
\* Interactive only in a step that handles hovering = false or
\* requestClickThrough(true), and handling hovering = false switches it to
\* ClickThrough at once, whether or not a cursor sample outside every hit
\* region has been processed.
C2_HoverEndSwitchesAtOnce ==
    /\ [][ ( /\ mainWindowLive
             /\ hist.hover = "on"
             /\ Interactive(liveWindow)
             /\ ClickThrough(wins'[mainWindow]) )
           => \/ Handling("overlay:set-widget-hovering") /\ ~Head(toMain).flag
              \/ Handling("overlay:request-click-through") /\ Head(toMain).flag ]_vars
    /\ [][ ( /\ HandleSetWidgetHovering
             /\ mainWindowLive
             /\ hist.hover = "on"
             /\ ~Head(toMain).flag )
           => ClickThrough(wins'[mainWindow]) ]_vars

\* a hover-end handled after a hover-start, on macOS, with no sample outside
\* the hit regions processed in between, and the window is ClickThrough
C2_Witness ==
    /\ mainWindowLive
    /\ platform = "darwin"
    /\ hist.hover = "ended"
    /\ ~hist.confirmedOutside
    /\ calls = <<"setIgnoreMouseEvents(true)">>
    /\ ClickThrough(liveWindow)

\* C3: once every message produced by a cursor sample has been handled, the
\* window is Interactive if the pointer of that sample is inside a hit region.
C3_InsideSampleEndsInteractive ==
    (mainWindowLive /\ mounted /\ hist.sample = "inside" /\ toMain = <<>>)
        => Interactive(liveWindow)

C5_NeverLargerThanWorkArea ==
    (mainWindowLive /\ hist.resizeArea # <<>>)
        => /\ liveRect.width <= hist.resizeArea[1].width
           /\ liveRect.height <= hist.resizeArea[1].height

\* a report larger than the work area was applied, clamped to the work area
C5_Witness ==
    /\ mainWindowLive
    /\ hist.resizeArea # <<>>
    /\ calls = <<"setBounds">>
    /\ liveRect.width = hist.resizeArea[1].width
    /\ liveRect.height = hist.resizeArea[1].height
    /\ hist.resizeArea[1].width > 0

\* C6: a valid bounds report whose candidate rectangle differs from the current
\* one by a summed absolute delta below 2 leaves the window untouched.
C6_AntiJitter ==
    [][ ( /\ HandleSetWidgetBounds
          /\ mainWindowLive
          /\ boundsPayloadOk(Head(toMain).bounds)
          /\ rectDelta(liveRect, candidateRect(liveRect, Head(toMain).bounds, displays)) < 2 )
        => (wins' = wins /\ calls' = <<>>) ]_vars

\* a report whose candidate differs from the window by a delta of 1 was absorbed
C6_Witness ==
    /\ mainWindowLive
    /\ hist.report # <<>>
    /\ hist.report[1].accepted
    /\ hist.report[1].delta = 1
    /\ ~hist.report[1].resized
    /\ hist.report[1].next # liveRect

\* the payloads C7 calls malformed
Malformed(b) ==
    \/ b.missing
    \/ b.left[1] # "fin" \/ b.top[1] # "fin" \/ b.width[1] # "fin" \/ b.height[1] # "fin"
    \/ b.width[2] <= 0
    \/ b.height[2] <= 0

\* C7: a missing payload, a non-finite left, top, width or height, or a width or
\* height <= 0 leaves the window rectangle unchanged and issues no resize.
C7_MalformedRejected ==
    [][ (HandleSetWidgetBounds /\ Malformed(Head(toMain).bounds))
        => (wins' = wins /\ calls' = <<>>) ]_vars

\* a malformed report was handled for a live window that had been resized before
C7_Witness ==
    /\ mainWindowLive
    /\ hist.report # <<>>
    /\ ~hist.report[1].accepted
    /\ hist.resizeArea # <<>>
    /\ toMain = <<>>

\* C8: the window rectangle always has width >= 1 and height >= 1.
C8_NoDegenerateRect ==
    \A id \in DOMAIN wins : wins[id].rect.width >= 1 /\ wins[id].rect.height >= 1

\* the sample a tick of the running loop computes in the current state
tickSample == computeSample(wins[cursorBroadcastInterval].rect, cursor)
tickRuns == cursorBroadcastInterval # 0 /\ cursorBroadcastInterval \in DOMAIN wins
tickSends == calls' = <<"send:overlay:cursor">>

\* C9: a tick sends overlay:cursor only if its sample differs from the sample
\* most recently sent; of two consecutive ticks with identical samples at most
\* one sends; and the baseline of the comparison is always the sample last sent.
C9_CursorDedup ==
    /\ [](lastCursorPayload = hist.lastEmitted)
    /\ [][ (CursorTick /\ tickRuns /\ tickSends)
           => (hist.lastEmitted = <<>> \/ hist.lastEmitted[1] # tickSample) ]_vars
    /\ [][ ( /\ CursorTick /\ tickRuns
             /\ hist.prevTick # <<>>
             /\ hist.prevTick[1].s = tickSample
             /\ hist.prevTick[1].sent )
           => ~tickSends ]_vars

\* a tick computed the sample already sent and sent nothing
C9_Witness ==
    /\ tickRuns
    /\ hist.prevTick # <<>>
    /\ ~hist.prevTick[1].sent
    /\ hist.lastEmitted = <<hist.prevTick[1].s>>
    /\ hist.prevTick[1].s = tickSample

FittedWindow == Rect(400, 400, 300, 300)

\* C10: a tick computes x = cursor.x - window.x, y = cursor.y - window.y and
\* inWindow = 0 <= x < width and 0 <= y < height; with the window at
\* (400,400,300,300), cursor (500,500) gives (100,100,true) and a following
\* cursor (1000,1000) gives (600,600,false), which is sent.
C10_SampleComputation ==
    /\ [][ (CursorTick /\ tickRuns)
           => LET b == wins[cursorBroadcastInterval].rect
                  x == cursor.x - b.x
                  y == cursor.y - b.y
              IN lastCursorPayload' =
                   <<Sample(x, y, 0 <= x /\ x < b.width /\ 0 <= y /\ y < b.height)>> ]_vars
    /\ [][ ( /\ CursorTick /\ tickRuns
             /\ wins[cursorBroadcastInterval].rect = FittedWindow
             /\ cursor = Point(500, 500) )
           => lastCursorPayload' = <<Sample(100, 100, TRUE)>> ]_vars
    /\ [][ ( /\ CursorTick /\ tickRuns
             /\ wins[cursorBroadcastInterval].rect = FittedWindow
             /\ cursor = Point(1000, 1000)
             /\ lastCursorPayload = <<Sample(100, 100, TRUE)>> )
           => (lastCursorPayload' = <<Sample(600, 600, FALSE)>> /\ tickSends) ]_vars

\* with the window at (400,400,300,300) and the pointer at (1000,1000), a tick
\* has just sent the sample (600,600,false)
C10_Witness ==
    /\ tickRuns
    /\ wins[cursorBroadcastInterval].rect = FittedWindow
    /\ cursor = Point(1000, 1000)
    /\ hist.prevTick = <<[s |-> Sample(600, 600, FALSE), sent |-> TRUE]>>
    /\ lastCursorPayload = <<Sample(600, 600, FALSE)>>
    /\ calls = <<"send:overlay:cursor">>

\* C11: the cursor broadcast loop is started once per window, while the window
\* is created, and stopped when that window is closed: as many loops were
\* started as windows were created, the running loop belongs to the live
\* window, closing the window clears the interval, and overlay:cursor is only
\* ever sent by a tick whose window is live.
C11_LoopFollowsWindow ==
    /\ [](hist.loopStarts = created)
    /\ [](\A id \in DOMAIN wins : wins[id].onClosed /\ cursorBroadcastInterval = id)
    /\ []((DOMAIN wins = {}) => cursorBroadcastInterval = 0)
    /\ [][CloseWindow => cursorBroadcastInterval' = 0]_vars
    /\ [][tickSends => (CursorTick /\ tickRuns)]_vars

\* the first window was closed, a second one created, and the second window's
\* own loop has just sent a sample
C11_Witness ==
    /\ created = 2
    /\ mainWindow = 2
    /\ mainWindowLive
    /\ cursorBroadcastInterval = 2
    /\ hist.loopStarts = 2
    /\ calls = <<"send:overlay:cursor">>

\* C12: the window-closed teardown is idempotent: running it twice gives what
\* running it once gives, its result always has no interval and no dedup state,
\* and run again after a window was closed it changes nothing.
C12_TeardownIdempotent ==
    LET once == closedListener(cursorBroadcastInterval, lastCursorPayload)
        twice == closedListener(once[1], once[2])
    IN /\ twice = once
       /\ once = <<0, <<>>>>
       /\ (DOMAIN wins = {}) => once = <<cursorBroadcastInterval, lastCursorPayload>>

\* both windows of the run were closed, the second teardown found the dedup
\* state of the first one gone, and nothing is left to stop
C12_Witness ==
    /\ created = 2
    /\ DOMAIN wins = {}
    /\ cursorBroadcastInterval = 0
    /\ lastCursorPayload = <<>>

\* the report the bounds handler is about to handle, and what it recorded
handledBounds == Head(toMain).bounds
HandlesValidReport ==
    HandleSetWidgetBounds /\ mainWindowLive /\ boundsPayloadOk(handledBounds)

\* round(v + 2 * 28) for the reported value v = h / 2, limited to 1 .. max
ClaimedSize(h, max) ==
    LET rounded == (h + 4 * 28 + 1) \div 2
        atLeastOne == IF rounded < 1 THEN 1 ELSE rounded
    IN IF atLeastOne > max THEN max ELSE atLeastOne

\* C13: for a valid bounds report the candidate size is
\* width = clamp(round(width + 2*28), 1, workArea.width) and
\* height = clamp(round(height + 2*28), 1, workArea.height), for the work area
\* of a display nearest the centre point of the current window rectangle; a
\* resize applies exactly that size.
C13_CandidateSize ==
    [][ HandlesValidReport
        => LET centre == Point(liveRect.x + (liveRect.width + 1) \div 2,
                               liveRect.y + (liveRect.height + 1) \div 2)
               next == hist'.report[1].next
           IN /\ \E i \in 1..Len(displays) :
                    /\ \A j \in 1..Len(displays) :
                          DistSq(centre, displays[i].bounds) <= DistSq(centre, displays[j].bounds)
                    /\ next.width = ClaimedSize(handledBounds.width[2], displays[i].workArea.width)
                    /\ next.height = ClaimedSize(handledBounds.height[2], displays[i].workArea.height)
              /\ hist'.report[1].resized
                    => (wins'[mainWindow].rect.width = next.width
                        /\ wins'[mainWindow].rect.height = next.height) ]_vars

\* a report of width 200.5 was applied on the second display, the one nearest
\* the window's centre: round(256.5) = 257 wide
C13_Witness ==
    /\ mainWindowLive
    /\ displays = <<SmallDisplay, HdRight>>
    /\ hist.report # <<>>
    /\ hist.report[1].payload.width = Fin(401)
    /\ hist.resizeArea = <<HdRight.workArea>>
    /\ calls = <<"setBounds">>
    /\ liveRect.width = 257
    /\ liveRect.height = 176

\* C14 as claimed: a resize leaves the window with
\* x = workArea.x + (workArea.width - width) / 2 and
\* y = workArea.y + (workArea.height - height) / 2 exactly.
C14_CentredExactly ==
    [][ (HandlesValidReport /\ calls' = <<"setBounds">>)
        => LET wa == hist'.resizeArea[1]
               r == wins'[mainWindow].rect
           IN /\ 2 * (r.x - wa.x) = wa.width - r.width
              /\ 2 * (r.y - wa.y) = wa.height - r.height ]_vars

\* C14 as amended: a resize leaves the window with
\* x = round(workArea.x + (workArea.width - width) / 2) and
\* y = round(workArea.y + (workArea.height - height) / 2), halves rounded up;
\* and the window (0,0,1920,1080) with a report 200 x 120 on the work area
\* (0,0,1920,1080) becomes (832,452,256,176).
C14_CentredRounded ==
    /\ [][ (HandlesValidReport /\ calls' = <<"setBounds">>)
           => LET wa == hist'.resizeArea[1]
                  r == wins'[mainWindow].rect
              IN /\ 2 * (r.x - wa.x) \in {wa.width - r.width, wa.width - r.width + 1}
                 /\ 2 * (r.y - wa.y) \in {wa.height - r.height, wa.height - r.height + 1} ]_vars
    /\ [][ ( /\ HandlesValidReport
             /\ liveRect = Rect(0, 0, 1920, 1080)
             /\ displays = <<HdDisplay>>
             /\ handledBounds.width = Fin(400)
             /\ handledBounds.height = Fin(240) )
           => (wins'[mainWindow].rect = Rect(832, 452, 256, 176) /\ calls' = <<"setBounds">>) ]_vars

\* a resize to 257 x 176 on the work area (0,0,1920,1080): 1663 / 2 = 831.5
\* became x = 832
C14_Witness ==
    /\ mainWindowLive
    /\ calls = <<"setBounds">>
    /\ hist.resizeArea = <<Rect(0, 0, 1920, 1080)>>
    /\ liveRect = Rect(832, 452, 257, 176)

\* left / top values a report could have carried instead
OtherCorners == { Fin(0), Fin(1720), Fin(-7) }

\* C15: the rectangle a valid report leaves the window with is the one any
\* report of the same width and height, with other finite left / top, leaves
\* it with from the same window rectangle and displays.
C15_LeftTopIgnored ==
    [][ HandlesValidReport
        => \A l \in OtherCorners, t \in OtherCorners :
              wins'[mainWindow].rect =
                 applyWidgetBoundsToWindow(liveRect,
                     WidgetBounds(l, t, handledBounds.width, handledBounds.height), displays) ]_vars

\* the report (left 0, top 0, 200 x 120) was applied to the window and gave the
\* rectangle the report (left 860, top 480, 200 x 120) gives
C15_Witness ==
    /\ mainWindowLive
    /\ hist.report # <<>>
    /\ hist.report[1].payload = WidgetBounds(Fin(0), Fin(0), Fin(400), Fin(240))
    /\ calls = <<"setBounds">>
    /\ hist.resizeArea = <<Rect(0, 0, 1920, 1080)>>
    /\ liveRect = Rect(832, 452, 256, 176)

\* C16: a valid bounds report handled while no display can be resolved is
\* abandoned silently: no error leaves the handler, no window call is made and
\* the window keeps its rectangle.
C16_NoDisplayAbandonsSilently ==
    [][ (HandlesValidReport /\ displays = <<>>)
        => (wins' = wins /\ calls' = <<>>) ]_vars

\* a step of one of the main process's core entry points
MainEntryPoint ==
    \/ HandleSetWidgetHovering
    \/ HandleSetWidgetBounds
    \/ HandleRequestClickThrough
    \/ TrayOpenSettings
    \/ GuardedReload
    \/ CursorTick

\* C17: while the overlay window is absent or destroyed, the hover, bounds and
\* click-through handlers, tray Open Settings, the reload shortcut and the
\* cursor tick issue no window call, send no message and change no state of the
\* main process or the renderer.
C17_AbsentWindowNoOp ==
    [][ (~mainWindowLive /\ MainEntryPoint)
        => /\ calls' = <<>>
           /\ toRenderer' = toRenderer
           /\ UNCHANGED <<mainVars, rendererVars, envVars>> ]_vars

\* a bounds report that was in flight when the window closed has been handled
\* with no window left
C17_Witness ==
    /\ ~mainWindowLive
    /\ hist.deadCall = "overlay:set-widget-bounds"
    /\ calls = <<>>
    /\ toMain = <<>>

\* a step that applies a desired interactivity state to the live window
AppliesClickThrough ==
    /\ mainWindowLive
    /\ HandleSetWidgetHovering \/ HandleRequestClickThrough \/ TrayOpenSettings

C20_StartsClickThrough ==
    (mainWindowLive /\ hist.untouched) => ClickThrough(liveWindow)

\* a second window, created by activate, whose renderer has mounted and whose
\* first event has not been handled yet
C20_Witness ==
    /\ created = 2
    /\ mainWindowLive
    /\ hist.untouched
    /\ mounted
    /\ toMain # <<>>
    /\ ClickThrough(liveWindow)

\* C21: tray Open Settings on a live window leaves it Interactive and sends
\* overlay:open-settings to the content, and the setIgnoreMouseEvents(false)
\* call is issued before the message is sent.
C21_TrayForcesInteractiveFirst ==
    [][ (TrayOpenSettings /\ mainWindowLive)
        => /\ Interactive(wins'[mainWindow])
           /\ toRenderer' = (IF mounted THEN Append(toRenderer, OpenSettingsMsg) ELSE toRenderer)
           /\ \E i, j \in 1..Len(calls') :
                 /\ calls'[i] = "setIgnoreMouseEvents(false)"
                 /\ calls'[j] = "send:overlay:open-settings"
                 /\ i < j ]_vars

\* Open Settings was clicked for a window with a mounted renderer: the window
\* is Interactive and the notification is on its way to the content
C21_Witness ==
    /\ mainWindowLive
    /\ mounted
    /\ calls = <<"setIgnoreMouseEvents(false)", "send:overlay:open-settings", "showInactive">>
    /\ toRenderer = <<OpenSettingsMsg>>
    /\ Interactive(liveWindow)

\* C22: a cursor tick never changes a window's interactivity flags or
\* rectangle, and the hover, click-through and Open Settings handlers never
\* change lastCursorPayload or the interval handle.
C22_PipelinesIndependent ==
    /\ [][CursorTick => wins' = wins]_vars
    /\ [][(HandleSetWidgetHovering \/ HandleRequestClickThrough \/ TrayOpenSettings)
            => UNCHANGED <<lastCursorPayload, cursorBroadcastInterval>>]_vars

\* with a sample on record, a hover-end or click-through request has just been
\* handled and the sample is still the one the last tick sent
C22_Witness ==
    /\ mainWindowLive
    /\ lastCursorPayload # <<>>
    /\ lastCursorPayload = hist.lastEmitted
    /\ calls = <<ignoreCall(TRUE)>>
    /\ hist.hover = "none"
    /\ ~hist.untouched

\* C23: the rectangle of an existing window changes only in a step that handles
\* a valid bounds report and calls setBounds; hover reports, click-through
\* requests, Open Settings, the reload shortcut and cursor ticks leave it as
\* it is; and handling a bounds report never changes the interactivity flags.
C23_RectSingleWriter ==
    /\ [][ (\E id \in (DOMAIN wins) \cap (DOMAIN wins') : wins'[id].rect # wins[id].rect)
           => (HandlesValidReport /\ calls' = <<"setBounds">>) ]_vars
    /\ [][ ( HandleSetWidgetHovering \/ HandleRequestClickThrough \/ TrayOpenSettings
             \/ GuardedReload \/ CursorTick )
           => \A id \in (DOMAIN wins) \cap (DOMAIN wins') : wins'[id].rect = wins[id].rect ]_vars
    /\ [][ (HandleSetWidgetBounds /\ mainWindowLive)
           => /\ wins'[mainWindow].ignore = wins[mainWindow].ignore
              /\ wins'[mainWindow].forward = wins[mainWindow].forward ]_vars

\* a bounds report resized a window that Open Settings had made Interactive,
\* and the window is still Interactive
C23_Witness ==
    /\ mainWindowLive
    /\ calls = <<"setBounds">>
    /\ liveRect = FittedWindow
    /\ hist.explicitReq
    /\ Interactive(liveWindow)

\* C24: at most one overlay window exists at any time; one exists at startup,
\* and a window is created afterwards only by activate, in a state with no
\* window open.
C24_SingleWindow ==
    /\ [](Cardinality(DOMAIN wins) <= 1)
    /\ [][ created' # created
           => (Activate /\ DOMAIN wins = {} /\ created' = created + 1
               /\ DOMAIN wins' = {created'}) ]_vars

\* activate has created a second window after the first one was closed
C24_Witness ==
    /\ created = 2
    /\ DOMAIN wins = {2}
    /\ mainWindow = 2
    /\ calls = <<ignoreCall(TRUE)>>
    /\ hist.untouched

\* nothing of the resize loop is pending: no report scheduled, none in flight
Quiescent == ~rafId /\ toMain = <<>>

\* the window is within the jitter threshold of the fit of the content
FitsContent ==
    (mainWindowLive /\ mounted /\ computeUnionRect # <<>>)
        => rectDelta(liveRect, candidateRect(liveRect, computeUnionRect[1], displays)) <= 1

\* C25: with content whose size does not depend on the window, a report
\* carrying the size that caused the latest resize never resizes the window
\* again, so each content size causes at most one resize; and the loop
\* quiesces: eventually no report is scheduled or in flight, for good, with the
\* window fitted to the content.
C25_ResizeLoopQuiesces ==
    /\ [][ ( /\ HandlesValidReport
             /\ hist.lastResize = << <<handledBounds.width[2], handledBounds.height[2]>> >> )
           => (wins' = wins /\ calls' = <<>>) ]_vars
    /\ <>[](Quiescent /\ FitsContent)

\* the content changed size as often as the run allows, the window was resized
\* for its last size, the report that followed the resize was absorbed, and
\* nothing is pending
C25_Witness ==
    /\ mounted
    /\ hist.contentChanges = MaxContentChanges
    /\ Quiescent
    /\ hist.report # <<>>
    /\ hist.report[1].delta = 0
    /\ ~hist.report[1].resized
    /\ hist.lastResize = <<contentSize>>
    /\ liveRect # getPrimaryDisplay(displays).bounds

\* C26: a window that is ClickThrough is not focusable (it becomes focusable
\* only on an explicit focus request of the content, and stops being so when
\* that focus is released).
C26_NotFocusableWhileClickThrough ==
    (mainWindowLive /\ ClickThrough(liveWindow)) => ~liveWindow.focusable

\* the pointer is over the live window's rectangle
cursorOverWindow ==
    /\ liveRect.x <= cursor.x /\ cursor.x < liveRect.x + liveRect.width
    /\ liveRect.y <= cursor.y /\ cursor.y < liveRect.y + liveRect.height

\* C27: with the pointer outside the overlay window, before the first cursor
\* sample was recorded or after, the reload shortcut does nothing.
C27_ReloadOnlyOverWindow ==
    [][ (GuardedReload /\ mainWindowLive /\ ~cursorOverWindow)
        => (calls' = <<>> /\ UNCHANGED rendererVars) ]_vars

C29_WithinJitterOfCandidate ==
    [][ HandlesValidReport
        => LET r == wins'[mainWindow].rect
               n == hist'.report[1].next
           IN Abs(r.x - n.x) + Abs(r.y - n.y) + Abs(r.width - n.width)
                + Abs(r.height - n.height) <= 1 ]_vars

\* a report whose candidate was far from the window has been applied exactly
C29_Witness ==
    /\ mainWindowLive
    /\ hist.report # <<>>
    /\ hist.report[1].accepted
    /\ hist.report[1].resized
    /\ hist.report[1].delta >= 2
    /\ calls = <<"setBounds">>
    /\ liveRect = hist.report[1].next

\* C30: a valid bounds report that equals the report handled just before it,
\* with the displays unchanged in between, leaves the window as it is and
\* calls no setBounds.
C30_ReportIdempotent ==
    [][ ( /\ HandlesValidReport
          /\ hist.report # <<>>
          /\ hist.report[1].accepted
          /\ hist.report[1].payload = handledBounds )
        => (wins' = wins /\ calls' = <<>>) ]_vars

\* the report that resized the window has been handled a second time, with the
\* same candidate, and nothing moved
C30_Witness ==
    /\ mainWindowLive
    /\ hist.report # <<>>
    /\ hist.report[1].accepted
    /\ ~hist.report[1].resized
    /\ hist.report[1].delta = 0
    /\ hist.lastResize = << <<hist.report[1].payload.width[2], hist.report[1].payload.height[2]>> >>
    /\ hist.report[1].payload.left = Fin(1720)
    /\ calls = <<>>
    /\ toMain = <<>>

\* C31: at most one cursor broadcast timer is active, and while an overlay
\* window is live the active timer is the one whose callback holds that
\* window; across window creation, close and re-creation by activate.
C31_OneLoopPerLiveWindow ==
    /\ Cardinality(hist.timers) <= 1
    /\ hist.timers = {cursorBroadcastInterval} \ {0}
    /\ \A id \in DOMAIN wins : hist.timers = {id}

\* the first window was closed and its timer cleared, a second window was
\* created by activate, and the only timer left is the second window's
C31_Witness ==
    /\ created = 2
    /\ mainWindowLive
    /\ hist.timers = {2}
    /\ hist.loopStarts = 2
    /\ lastCursorPayload # <<>>

\* the running loop has not ticked since it was started
firstTick == hist.prevTick = <<>>

\* C32: the first tick after the loop starts finds no previous sample and
\* sends the sample it computes; closing the window clears the dedup state, so
\* the first tick of a re-created window sends its sample also when it equals
\* the sample last sent for the closed window.
C32_FirstTickEmits ==
    /\ [](firstTick => lastCursorPayload = <<>>)
    /\ [][ (CursorTick /\ tickRuns /\ firstTick)
           => (tickSends /\ lastCursorPayload' = <<tickSample>>) ]_vars
    /\ [][ CloseWindow => (lastCursorPayload' = <<>> /\ firstTick') ]_vars
    /\ [][ (CursorTick /\ tickRuns /\ firstTick /\ hist.oldEmitted = <<tickSample>>)
           => (tickSends /\ hist'.lastEmitted = hist.oldEmitted) ]_vars

\* the first tick of the second window has sent the sample that was the last
\* one sent for the first window
C32_Witness ==
    /\ created = 2
    /\ tickRuns
    /\ hist.oldEmitted # <<>>
    /\ hist.prevTick = <<[s |-> hist.oldEmitted[1], sent |-> TRUE]>>
    /\ lastCursorPayload = hist.oldEmitted
    /\ calls = <<"send:overlay:cursor">>

\* the pointer is where the previous tick found it, the window's origin is not
originMovedSinceTick ==
    /\ hist.prevView # <<>>
    /\ hist.prevView[1].point = cursor
    /\ hist.prevView[1].origin # Point(wins[cursorBroadcastInterval].rect.x,
                                       wins[cursorBroadcastInterval].rect.y)

\* C33: a tick computes its sample against the window rectangle of the moment:
\* the sample sent is the pointer minus the window origin as they are when the
\* tick runs; and when the window origin has moved since the previous tick
\* while the pointer has not, the tick computes other window-relative
\* coordinates than the previous tick and sends the new sample.
C33_TickReadsCurrentRect ==
    /\ [][ (CursorTick /\ tickRuns /\ tickSends)
           => /\ hist'.lastEmitted[1].x = cursor.x - wins[cursorBroadcastInterval].rect.x
              /\ hist'.lastEmitted[1].y = cursor.y - wins[cursorBroadcastInterval].rect.y ]_vars
    /\ [][ (CursorTick /\ tickRuns /\ originMovedSinceTick)
           => /\ tickSends
              /\ hist'.prevTick[1].s # hist.prevTick[1].s
              /\ lastCursorPayload' = <<hist'.prevTick[1].s>>
              /\ ( hist'.prevTick[1].s.x # hist.prevTick[1].s.x
                   \/ hist'.prevTick[1].s.y # hist.prevTick[1].s.y ) ]_vars

\* an accepted bounds report moved the window between two ticks that found the
\* pointer at the same place, and the second tick has sent a new sample
C33_Witness ==
    /\ tickRuns
    /\ hist.prevView # <<>>
    /\ hist.prevView[1].moved
    /\ hist.prevView[1].point = cursor
    /\ hist.report # <<>>
    /\ hist.report[1].resized
    /\ hist.prevTick[1].sent
    /\ calls = <<"send:overlay:cursor">>
    /\ lastCursorPayload = <<computeSample(liveRect, cursor)>>

\* the content was reloaded and no sample was sent since
reloadedUnsampled == hist.reload # "none"

\* C34: only the window's close clears the dedup state; a reload of the
\* content by the reload shortcut leaves lastCursorPayload as it is, so while
\* the pointer and the window rectangle stay as they were a tick sends nothing,
\* and the reloaded content is sent no cursor sample before a tick computes a
\* sample other than the one lastCursorPayload holds.
C34_ReloadKeepsDedup ==
    /\ [][ (lastCursorPayload # <<>> /\ lastCursorPayload' = <<>>) => CloseWindow ]_vars
    /\ [][ GuardedReload => lastCursorPayload' = lastCursorPayload ]_vars
    /\ [][ (CursorTick /\ tickRuns /\ reloadedUnsampled /\ lastCursorPayload = <<tickSample>>)
           => (~tickSends /\ toRenderer' = toRenderer /\ reloadedUnsampled') ]_vars
    /\ [][ (CursorTick /\ tickRuns /\ reloadedUnsampled /\ tickSends)
           => lastCursorPayload # <<tickSample>> ]_vars
    /\ [](reloadedUnsampled
            => \A i \in 1..Len(toRenderer) : toRenderer[i].type # "overlay:cursor")

\* the content was reloaded with the pointer over the window and has mounted
\* again, a tick ran after the reload with the pointer and the window where
\* they were, and nothing was sent
C34_Witness ==
    /\ mainWindowLive
    /\ mounted
    /\ hist.reload = "quiet"
    /\ lastCursorPayload = <<tickSample>>
    /\ lastCursorPayload[1].inWindow
    /\ hist.prevTick = <<[s |-> tickSample, sent |-> FALSE]>>
    /\ toRenderer = <<>>
    /\ calls = <<>>

\* a step of the hover, bounds or click-through handler
HandlesMessage ==
    HandleSetWidgetHovering \/ HandleSetWidgetBounds \/ HandleRequestClickThrough

\* C35: the window activate creates after a close is the one mainWindow names;
\* it starts ClickThrough with the cursor loop running for it; and the hover,
\* bounds and click-through messages handled from then on are applied to that
\* window and to no other: no window closed before comes back or is touched.
C35_MessagesReachNewWindow ==
    /\ [][ Activate
           => /\ mainWindow' = created'
              /\ DOMAIN wins' = {mainWindow'}
              /\ ClickThrough(wins'[mainWindow'])
              /\ cursorBroadcastInterval' = mainWindow' ]_vars
    /\ [][ (HandlesMessage /\ created > 1)
           => /\ DOMAIN wins' = DOMAIN wins
              /\ DOMAIN wins \subseteq {created}
              /\ mainWindow = created ]_vars
    /\ [][ (HandleSetWidgetHovering /\ created > 1 /\ DOMAIN wins # {})
           => wins'[created].ignore = ~Head(toMain).flag ]_vars
    /\ [][ (HandleRequestClickThrough /\ created > 1 /\ DOMAIN wins # {})
           => wins'[created].ignore = Head(toMain).flag ]_vars
    /\ [][ (HandlesValidReport /\ created > 1 /\ DOMAIN wins # {})
           => wins'[created].rect =
                applyWidgetBoundsToWindow(wins[created].rect, handledBounds, displays) ]_vars

\* the second window, created by activate after the first was closed, was made
\* Interactive by a hover-start and then fitted by a bounds report, with its
\* own loop running
C35_Witness ==
    /\ created = 2
    /\ mainWindow = 2
    /\ DOMAIN wins = {2}
    /\ cursorBroadcastInterval = 2
    /\ hist.hover = "on"
    /\ Interactive(liveWindow)
    /\ hist.report # <<>>
    /\ hist.report[1].resized
    /\ calls = <<"setBounds">>
    /\ liveRect # getPrimaryDisplay(displays).bounds

\* what the App cursor effect sends in a step that handles a cursor sample: the
\* messages appended to toMain after those of the widgets that stop hovering
appEffectSent ==
    LET leaving == Cardinality({i \in Widgets : hoveringRef[i] /\ ~hoveringRef'[i]})
    IN SubSeq(toMain', Len(toMain) + leaving + 1, Len(toMain'))

\* the widget containment of the sample at the head of toRenderer
sampleContainment ==
    closestWidget(elementFromPoint(Head(toRenderer).x, Head(toRenderer).y,
                                   rendererBounds, settingsOpen))

\* C36: the App cursor effect is edge-triggered.  lastInside is the value it
\* last passed to setWidgetHovering (false while it has sent none since the
\* content loaded); for a sample inside the window it sends
\* setWidgetHovering(v) exactly when the containment v differs from lastInside,
\* for a sample outside the window it sends setWidgetHovering(false) exactly
\* when lastInside is true, and a sample whose containment is the value last
\* sent sends nothing.
C36_AppHoverEdgeTriggered ==
    /\ [][ RendererCursor
           => /\ Len(appEffectSent) <= 1
              /\ appEffectSent # <<>> => lastInside' = appEffectSent[1].flag
              /\ appEffectSent = <<>> => lastInside' = lastInside ]_vars
    /\ [][ (RendererCursor /\ Head(toRenderer).inWindow)
           => appEffectSent = IF sampleContainment # lastInside
                              THEN <<HoverMsg(sampleContainment)>>
                              ELSE <<>> ]_vars
    /\ [][ (RendererCursor /\ ~Head(toRenderer).inWindow)
           => appEffectSent = IF lastInside THEN <<HoverMsg(FALSE)>> ELSE <<>> ]_vars
    /\ [][ (lastInside' # lastInside) => RendererCursor ]_vars

\* a sample over widget 2 was handled after one over widget 1: widget 1
\* reported its hover end, and the App effect, whose containment was true
\* already, sent nothing
C36_Witness ==
    /\ mounted
    /\ hist.sample = "inside"
    /\ lastInside
    /\ hoveringRef[2] /\ ~hoveringRef[1]
    /\ toMain = <<HoverMsg(FALSE)>>
    /\ toRenderer = <<>>
    /\ lastCursorPayload = <<Sample(580, 550, TRUE)>>

\* a step in which schedule() is called: the content's size changes, or the
\* window is resized under mounted content
SchedulesReport ==
    \/ \E s \in ReportSizes : s # contentSize /\ contentSize' = s
    \/ HandleSetWidgetBounds /\ mounted /\ calls' = <<"setBounds">>

\* the bounds messages a step appends to toMain
boundsSent ==
    SelectSeq(SubSeq(toMain', Len(toMain) + 1, Len(toMain')),
              LAMBDA m : m.type = "overlay:set-widget-bounds")

\* C37: bounds reporting is coalesced.  At most one animation-frame callback is
\* pending, and rafId says whether one is; a trigger that arrives while one is
\* pending requests none and sends nothing; the callback, when it runs, makes
\* at most one setWidgetBounds call, exactly one when the union rectangle is
\* not empty, and leaves none pending; and no report carries a width or a
\* height that is not positive.
C37_ReportsCoalesced ==
    /\ [](hist.frames = IF rafId THEN 1 ELSE 0)
    /\ [][ (SchedulesReport /\ rafId)
           => (rafId' /\ hist'.frames = 1 /\ boundsSent = <<>>) ]_vars
    /\ [][ ReportBounds
           => /\ ~rafId' /\ hist'.frames = 0
              /\ Len(boundsSent) = (IF contentSize[1] > 0 /\ contentSize[2] > 0 THEN 1 ELSE 0) ]_vars
    /\ [][ (boundsSent # <<>>) => ReportBounds ]_vars
    /\ [](\A i \in 1..Len(toMain) :
            toMain[i].type = "overlay:set-widget-bounds"
                => (toMain[i].bounds.width[2] > 0 /\ toMain[i].bounds.height[2] > 0))

\* after the mount and as many size changes as the run allows, the last one to
\* a content that is not empty, the pending callback ran: one report is in
\* flight, none was handled before, none is pending
C37_Witness ==
    /\ mounted
    /\ hist.contentChanges = MaxContentChanges
    /\ computeUnionRect # <<>>
    /\ ~rafId
    /\ hist.frames = 0
    /\ hist.report = <<>>
    /\ toMain = <<ClickThroughMsg(TRUE), BoundsMsg(computeUnionRect[1])>>

====
